---- MODULE Spec2Model ----
(***************************************************************************)
(* Circuit trait of circuit_builder.rs: public-input encoding, build_pi,   *)
(* and the compile / gen_proof / verify_proof pipelines, modelled step by  *)
(* step.  The constraint system (StandardComposer), the commitment scheme  *)
(* (PublicParameters::trim) and the Prover / Verifier engines live outside *)
(* this file of the crate; they are modelled from their documented         *)
(* interface as ideal (complete and sound) engines.                        *)
(***************************************************************************)
EXTENDS Integers, Sequences, FiniteSets, TLC

\* ------------------------------------------------------------------ bounds
\* Modulus of the scalar field standing for BlsScalar.
P == 5
\* Largest witness value a the prover's circuit instances take.
MaxA == 1
\* Longest position list fed to build_pi on its own.
MaxPosLen == 4
\* Circuit<'_, N>::TRIM_SIZE, the length of the public-input vector; the test
\* circuit sets 1 << 11, the model a size its gates still fit in.
TRIM_SIZE == 10
\* Order of the group standing for the JubJub subgroup (JubJubScalar).
Q == 3

\* ------------------------------------------------------- program constants
\* range_gate(a, 1 << 6) and range_gate(b, 1 << 5): the bit widths passed.
ABits == 64
BBits == 32

TRANSCRIPT_INIT == "Test"

\* ------------------------------------------------------------- field model
Scalars == 0 .. (P - 1)
\* BlsScalar negation (the unary minus of build_pi and of the gadget).
Neg(x) == (P - (x % P)) % P
Add(x, y) == (x + y) % P
Mul(x, y) == (x * y) % P

\* Number of bits of the canonical representative of v.
RECURSIVE BitLen(_)
BitLen(v) == IF v = 0 THEN 0 ELSE 1 + BitLen(v \div 2)

\* A JubJubAffine point k * GENERATOR of the model group; the identity
\* (JubJubAffine::default()) is (0, 1).
PointOf(k) == [x |-> (k % Q) % P, y |-> ((k % Q) + 1) % P]
GENERATOR == PointOf(1)
Points == {PointOf(k) : k \in 0 .. (Q - 1)}

\* ------------------------------------------------ PublicInputValue encoding
FromBlsScalar(scalar) == <<scalar>>
FromJubJubScalar(scalar) == <<(scalar % Q) % P>>
FromJubJubAffine(point) == <<point.x, point.y>>

RECURSIVE Flatten(_)
Flatten(values) ==
    IF values = <<>> THEN <<>> ELSE Head(values) \o Flatten(Tail(values))

Min(m, n) == IF m < n THEN m ELSE n

\* ----------------------------------------------------------------- build_pi
\* The pairs (value, pos) that flatten().zip(positions) yields, in order.
ZipLen(values, positions) == Min(Len(Flatten(values)), Len(positions))

\* A bounds check that lets the index TRIM_SIZE through.
BuildPiPanics_OffByOne(values, positions) ==
    \E i \in 1 .. Min(Len(Flatten(values)), Len(positions)) : positions[i] > TRIM_SIZE

\* pi[*pos] panics (index out of bounds) when a paired position is >= TRIM_SIZE.
BuildPiPanics(values, positions) ==
    \E i \in 1 .. ZipLen(values, positions) : positions[i] >= TRIM_SIZE

\* The scalar stored without the negation.
PiEntry_NotNegated(value) == value % P

\* The scalar build_pi stores for a flattened value.
PiEntry(value) == Neg(value)

\* A scatter loop that stops one pair early.
RECURSIVE Scatter_StopsEarly(_, _, _, _)
Scatter_StopsEarly(pi, flat, positions, i) ==
    IF i >= Min(Len(flat), Len(positions)) THEN pi
    ELSE Scatter_StopsEarly([pi EXCEPT ![positions[i]] = PiEntry(flat[i])],
                            flat, positions, i + 1)

\* The vector pi, indexed 0 .. TRIM_SIZE - 1; later pairs overwrite earlier ones.
RECURSIVE Scatter(_, _, _, _)
Scatter(pi, flat, positions, i) ==
    IF i > Min(Len(flat), Len(positions)) THEN pi
    ELSE Scatter([pi EXCEPT ![positions[i]] = PiEntry(flat[i])], flat, positions, i + 1)

build_pi(values, positions) ==
    Scatter([j \in 0 .. (TRIM_SIZE - 1) |-> 0], Flatten(values), positions, 1)

\* ------------------------------------------------------- StandardComposer
\* A constraint system: n gates, their kinds in order, the sparse store of
\* public inputs (gate index -> value), and whether the witness assignment
\* satisfies every gate emitted so far.
NoPis == [j \in {} |-> 0]
NewComposer == [n |-> 0, gates |-> <<>>, pis |-> NoPis, sat |-> TRUE]

\* One arithmetic gate; pi is <<>> (None) or <<v>> (Some(v)), stored at the
\* index of the gate.
poly_gate(cs, kind, holds, pi) ==
    [n     |-> cs.n + 1,
     gates |-> Append(cs.gates, kind),
     pis   |-> IF pi = <<>> THEN cs.pis ELSE (cs.n :> pi[1]) @@ cs.pis,
     sat   |-> cs.sat /\ holds]

range_gate(cs, v, num_bits) ==
    poly_gate(cs, "range", BitLen(v) <= num_bits, <<>>)

\* Point::from_public_affine: both coordinates are constrained to the public
\* constant, one gate each.
from_public_affine(cs, point) ==
    poly_gate(poly_gate(cs, "const_x", TRUE, <<Neg(point.x)>>),
              "const_y", TRUE, <<Neg(point.y)>>)

\* variable_base_scalar_mul(e, GENERATOR): the gates of the multiplication.
scalar_mul(cs) == poly_gate(cs, "scalar_mul", TRUE, <<>>)

assert_equal_public_point(cs, point, pub) ==
    poly_gate(poly_gate(cs, "eq_x", point.x = pub.x, <<Neg(pub.x)>>),
              "eq_y", point.y = pub.y, <<Neg(pub.y)>>)

\* The keys of the sparse store in increasing order.
RECURSIVE SortedSeq(_)
SortedSeq(S) ==
    IF S = {} THEN <<>>
    ELSE LET m == CHOOSE x \in S : \A y \in S : x <= y
         IN <<m>> \o SortedSeq(S \ {m})

pi_positions(cs) == SortedSeq(DOMAIN cs.pis)

\* ------------------------------------------------------------ TestCircuit
DefaultCircuit == [a |-> 0, b |-> 0, c |-> 0, d |-> 0, e |-> 0, f |-> PointOf(0)]

\* A gadget that takes the witness a out of self (leaving zero) and emits the
\* range check of a only while a is set.
gadget_TakesWitness(circ, composer) ==
    LET g1 == poly_gate(composer, "add",
                        Add(Add(circ.a, circ.b), Neg(circ.c)) = 0, <<Neg(circ.c)>>)
        g2 == IF circ.a = 0 THEN g1 ELSE range_gate(g1, circ.a, ABits)
        g3 == range_gate(g2, circ.b, BBits)
        g4 == poly_gate(g3, "mul",
                        Add(Mul(circ.a, circ.b), Neg(circ.d)) = 0, <<Neg(circ.d)>>)
        g5 == from_public_affine(g4, GENERATOR)
        g6 == scalar_mul(g5)
        g7 == assert_equal_public_point(g6, PointOf(circ.e), circ.f)
    IN [circ |-> [circ EXCEPT !.a = 0], cs |-> g7]

\* TestCircuit::gadget: the constraints it emits into composer, and the
\* circuit instance afterwards (the gadget leaves self as it was).
gadget(circ, composer) ==
    LET g1 == poly_gate(composer, "add",
                        Add(Add(circ.a, circ.b), Neg(circ.c)) = 0, <<Neg(circ.c)>>)
        g2 == range_gate(g1, circ.a, ABits)
        g3 == range_gate(g2, circ.b, BBits)
        g4 == poly_gate(g3, "mul",
                        Add(Mul(circ.a, circ.b), Neg(circ.d)) = 0, <<Neg(circ.d)>>)
        g5 == from_public_affine(g4, GENERATOR)
        g6 == scalar_mul(g5)
        g7 == assert_equal_public_point(g6, PointOf(circ.e), circ.f)
    IN [circ |-> circ, cs |-> g7]

\* The public inputs a verifier declares for an instance, in declaration order.
Declared(circ) ==
    <<FromBlsScalar(circ.c), FromBlsScalar(circ.d),
      FromJubJubAffine(GENERATOR), FromJubJubAffine(circ.f)>>

\* ------------------------------------------------------ external engines
\* PublicParameters: a structured reference string and its maximal degree.
Srs == {1, 2}
PublicParameters ==
    [srs : Srs, max_degree : {2 * TRIM_SIZE}] \cup {[srs |-> 1, max_degree |-> TRIM_SIZE - 1]}

\* pub_params.trim(size) -> (committer key, opener key), or an error when the
\* parameters are too short.
Trim(pub_params, size) ==
    IF size > pub_params.max_degree
    THEN [ok |-> FALSE, ck |-> [srs |-> 0, size |-> 0], vk |-> [srs |-> 0]]
    ELSE [ok |-> TRUE,
          ck |-> [srs |-> pub_params.srs, size |-> size],
          vk |-> [srs |-> pub_params.srs]]

\* The key a preprocessing pass derives: the circuit description under the
\* committer key.
Preprocess(cs, commit_key) == [srs |-> commit_key.srs, gates |-> cs.gates]

NoProof == [ok |-> FALSE, valid |-> FALSE, srs |-> 0, gates |-> <<>>,
            pis |-> NoPis, tag |-> ""]

\* The proof an honest prover engine outputs: it is valid exactly when the
\* witness satisfies the constraints and the attached key describes them.
Prove(cs, prover_key, commit_key, tag) ==
    [ok    |-> TRUE,
     valid |-> cs.sat /\ cs.gates = prover_key.gates /\ commit_key.srs = prover_key.srs,
     srs   |-> prover_key.srs,
     gates |-> prover_key.gates,
     pis   |-> cs.pis,
     tag   |-> tag]

\* The public-input vector the prover's constraint system stands for.
DensePi(pis, j) == IF j \in DOMAIN pis THEN pis[j] ELSE 0

\* The ideal verifier engine: accepts exactly the valid proofs of the keyed
\* circuit whose public inputs are the vector it is handed.
Verify(prf, opening_key, verifier_key, pub_inputs, tag) ==
    /\ prf.valid
    /\ prf.tag = tag
    /\ prf.srs = verifier_key.srs
    /\ prf.gates = verifier_key.gates
    /\ opening_key.srs = verifier_key.srs
    /\ \A j \in 0 .. (TRIM_SIZE - 1) : pub_inputs[j] = DensePi(prf.pis, j)

\* ------------------------------------------------------ circuit instances
Satisfying ==
    {[a |-> x, b |-> y, c |-> Add(x, y), d |-> Mul(x, y), e |-> x % Q, f |-> PointOf(x)] :
        x \in 0 .. MaxA, y \in 0 .. 1}
Unsatisfying == {[i EXCEPT !.c = Add(i.c, 1)] : i \in Satisfying}
Instances == Satisfying \cup Unsatisfying

\* ------------------------------------------------------------------ state
VARIABLES
    pc,         \* position inside the running call, "idle" between calls
    call,       \* the entry point called last and its arguments
    self,       \* the circuit instance the call runs on
    ck,         \* committer key of the call (trim)
    opener,     \* opener key of the call (trim)
    prover,     \* the call's Prover: its composer and its Option<ProverKey>
    verifier,   \* the call's Verifier: its composer and its Option<VerifierKey>
    pi_pos,     \* compile's local pi_pos, <<>> until it is assigned
    pi,         \* verify_proof's public-input vector, <<>> until it is built
    steps,      \* the steps the call has run, in order, each with what it returned
    result,     \* outcome of the call: none, Ok, Err(kind) or panic
    compiled,   \* the artifacts returned by compile, per slot
    proof,      \* the proof returned by gen_proof
    proved      \* the instance, the key slot and the parameters gen_proof ran with

vars == <<pc, call, self, ck, opener, prover, verifier, pi_pos, pi, steps, result,
          compiled, proof, proved>>

Slots == {1, 2}
NoKey == [srs |-> 0, gates |-> <<>>]
NoCk == [srs |-> 0, size |-> 0]
NoOpener == [srs |-> 0]
NoPp == [srs |-> 0, max_degree |-> 0]
NotCompiled == [ok |-> FALSE, pk |-> NoKey, vk |-> NoKey, pi_pos |-> <<>>, pp |-> NoPp,
                circ_in |-> DefaultCircuit, circ_out |-> DefaultCircuit]
NoCall == [op |-> "none", pp |-> NoPp, slot |-> 0, circ |-> DefaultCircuit,
           values |-> <<>>, positions |-> <<>>]
NotProved == [circ |-> DefaultCircuit, slot |-> 0, pp |-> NoPp]
NoResult == [kind |-> "none", err |-> ""]
Ok == [kind |-> "Ok", err |-> ""]
Err(e) == [kind |-> "Err", err |-> e]
Panic(e) == [kind |-> "panic", err |-> e]

\* Prover::new / Verifier::new: a fresh composer and no key.
ProverNew == [cs |-> NewComposer, prover_key |-> <<>>]
VerifierNew == [cs |-> NewComposer, verifier_key |-> <<>>]

Init ==
    /\ pc = "idle"
    /\ call = NoCall
    /\ self = DefaultCircuit
    /\ ck = NoCk
    /\ opener = NoOpener
    /\ prover = ProverNew
    /\ verifier = VerifierNew
    /\ pi_pos = <<>>
    /\ pi = <<>>
    /\ steps = <<>>
    /\ result = NoResult
    /\ compiled = [s \in Slots |-> NotCompiled]
    /\ proof = NoProof
    /\ proved = NotProved

\* Entering a call on the instance circ; the locals of the call are fresh.
Enter(op, circ, pub_params, slot, values, positions) ==
    /\ pc = "idle"
    /\ call' = [op |-> op, pp |-> pub_params, slot |-> slot, circ |-> circ,
                values |-> values, positions |-> positions]
    /\ self' = circ
    /\ UNCHANGED <<ck, opener, prover, verifier, pi_pos, pi, steps, result>>

\* Leaving a call with outcome r after running step.
Return(step, r) ==
    /\ pc' = "returned"
    /\ steps' = Append(steps, <<step, IF r.kind = "Ok" THEN "Ok" ELSE r.err>>)
    /\ result' = r

\* The caller takes the outcome; the locals of the call go out of scope.
Drop ==
    /\ pc = "returned"
    /\ pc' = "idle"
    /\ call' = NoCall
    /\ self' = DefaultCircuit
    /\ ck' = NoCk
    /\ opener' = NoOpener
    /\ prover' = ProverNew
    /\ verifier' = VerifierNew
    /\ pi_pos' = <<>>
    /\ pi' = <<>>
    /\ steps' = <<>>
    /\ result' = NoResult
    /\ UNCHANGED <<compiled, proof, proved>>

\* The outcomes of a gadget run: the trait lets an implementor fail.
GadgetOutcomes == {"Ok", "GadgetConstructionError"}
\* The outcomes of a preprocessing or proving run of the engines.
EngineOutcomes == {"Ok", "Failed"}

\* ---------------------------------------------------------------- compile
CompileCall(circ, pub_params, slot) ==
    /\ ~compiled[slot].ok
    /\ Enter("compile", circ, pub_params, slot, <<>>, <<>>)
    /\ pc' = "c_trim"
    /\ UNCHANGED <<compiled, proof, proved>>

\* let (ck, _) = pub_params.trim(Self::TRIM_SIZE)?;  Prover::new
CompileTrim ==
    /\ pc = "c_trim"
    /\ LET t == Trim(call.pp, TRIM_SIZE)
       IN IF t.ok
          THEN /\ ck' = t.ck
               /\ pc' = "c_gadget1"
               /\ steps' = Append(steps, <<"trim", "Ok">>)
               /\ UNCHANGED result
          ELSE /\ Return("trim", Err("ParameterTrimError"))
               /\ UNCHANGED ck
    /\ UNCHANGED <<call, self, opener, prover, verifier, pi_pos, pi, compiled, proof, proved>>

\* A first pass whose gadget error is dropped: the call goes on.
CompileGadget1_Swallowed(outcome) ==
    /\ pc = "c_gadget1"
    /\ LET g == gadget(self, prover.cs)
       IN /\ self' = g.circ
          /\ prover' = [prover EXCEPT !.cs = g.cs]
          /\ pc' = "c_pi_pos"
          /\ steps' = Append(steps, <<"gadget", outcome>>)
          /\ UNCHANGED result
    /\ UNCHANGED <<call, ck, opener, verifier, pi_pos, pi, compiled, proof, proved>>

\* self.gadget(prover.mut_cs())?;
CompileGadget1(outcome) ==
    /\ pc = "c_gadget1"
    /\ IF outcome = "Ok"
       THEN LET g == gadget(self, prover.cs)
            IN /\ self' = g.circ
               /\ prover' = [prover EXCEPT !.cs = g.cs]
               /\ pc' = "c_pi_pos"
               /\ steps' = Append(steps, <<"gadget", "Ok">>)
               /\ UNCHANGED result
       ELSE /\ Return("gadget", Err(outcome))
            /\ UNCHANGED <<self, prover>>
    /\ UNCHANGED <<call, ck, opener, verifier, pi_pos, pi, compiled, proof, proved>>

\* The position list read from the verifier's composer at this point.
CompilePiPositions_FromVerifier ==
    /\ pc = "c_pi_pos"
    /\ pi_pos' = pi_positions(verifier.cs)
    /\ pc' = "c_preprocess1"
    /\ steps' = Append(steps, <<"pi_positions", "Ok">>)
    /\ UNCHANGED <<call, self, ck, opener, prover, verifier, pi, result, compiled, proof,
                   proved>>

\* let pi_pos = prover.mut_cs().pi_positions();
CompilePiPositions ==
    /\ pc = "c_pi_pos"
    /\ pi_pos' = pi_positions(prover.cs)
    /\ pc' = "c_preprocess1"
    /\ steps' = Append(steps, <<"pi_positions", "Ok">>)
    /\ UNCHANGED <<call, self, ck, opener, prover, verifier, pi, result, compiled, proof,
                   proved>>

\* prover.preprocess(&ck)?;  Verifier::new
CompilePreprocess1(outcome) ==
    /\ pc = "c_preprocess1"
    /\ IF outcome = "Ok" /\ prover.cs.n <= ck.size
       THEN /\ prover' = [prover EXCEPT !.prover_key = <<Preprocess(prover.cs, ck)>>]
            /\ pc' = "c_gadget2"
            /\ steps' = Append(steps, <<"preprocess", "Ok">>)
            /\ UNCHANGED result
       ELSE /\ Return("preprocess", Err("PreprocessError"))
            /\ UNCHANGED prover
    /\ UNCHANGED <<call, self, ck, opener, verifier, pi_pos, pi, compiled, proof, proved>>

\* A second pass that shares the prover's constraint system instead of
\* running the gadget again.
CompileGadget2_Shared(outcome) ==
    /\ pc = "c_gadget2"
    /\ outcome = "Ok"
    /\ verifier' = [verifier EXCEPT !.cs = prover.cs]
    /\ pc' = "c_preprocess2"
    /\ UNCHANGED <<call, self, ck, opener, prover, pi_pos, pi, steps, result, compiled,
                   proof, proved>>

\* self.gadget(verifier.mut_cs())?;
CompileGadget2(outcome) ==
    /\ pc = "c_gadget2"
    /\ IF outcome = "Ok"
       THEN LET g == gadget(self, verifier.cs)
            IN /\ self' = g.circ
               /\ verifier' = [verifier EXCEPT !.cs = g.cs]
               /\ pc' = "c_preprocess2"
               /\ steps' = Append(steps, <<"gadget", "Ok">>)
               /\ UNCHANGED result
       ELSE /\ Return("gadget", Err(outcome))
            /\ UNCHANGED <<self, verifier>>
    /\ UNCHANGED <<call, ck, opener, prover, pi_pos, pi, compiled, proof, proved>>

\* verifier.preprocess(&ck)?;
CompilePreprocess2(outcome) ==
    /\ pc = "c_preprocess2"
    /\ IF outcome = "Ok" /\ verifier.cs.n <= ck.size
       THEN /\ verifier' = [verifier EXCEPT !.verifier_key = <<Preprocess(verifier.cs, ck)>>]
            /\ pc' = "c_return"
            /\ steps' = Append(steps, <<"preprocess", "Ok">>)
            /\ UNCHANGED result
       ELSE /\ Return("preprocess", Err("PreprocessError"))
            /\ UNCHANGED verifier
    /\ UNCHANGED <<call, self, ck, opener, prover, pi_pos, pi, compiled, proof, proved>>

\* Ok((prover.prover_key.expect(..), verifier.verifier_key.expect(..), pi_pos))
CompileReturn ==
    /\ pc = "c_return"
    /\ IF prover.prover_key = <<>> \/ verifier.verifier_key = <<>>
       THEN /\ Return("return", Panic("MissingKey"))
            /\ UNCHANGED compiled
       ELSE /\ Return("return", Ok)
            /\ compiled' = [compiled EXCEPT ![call.slot] =
                               [ok |-> TRUE,
                                pk |-> prover.prover_key[1],
                                vk |-> verifier.verifier_key[1],
                                pi_pos |-> pi_pos,
                                pp |-> call.pp,
                                circ_in |-> call.circ,
                                circ_out |-> self]]
    /\ UNCHANGED <<call, self, ck, opener, prover, verifier, pi_pos, pi, proof, proved>>

\* -------------------------------------------------------------- gen_proof
GenProofCall(circ, pub_params, slot) ==
    /\ compiled[slot].ok
    /\ Enter("gen_proof", circ, pub_params, slot, <<>>, <<>>)
    /\ pc' = "g_trim"
    /\ UNCHANGED <<compiled, proof, proved>>

\* let (ck, _) = pub_params.trim(Self::TRIM_SIZE)?;  Prover::new
GenProofTrim ==
    /\ pc = "g_trim"
    /\ LET t == Trim(call.pp, TRIM_SIZE)
       IN IF t.ok
          THEN /\ ck' = t.ck
               /\ pc' = "g_gadget"
               /\ steps' = Append(steps, <<"trim", "Ok">>)
               /\ UNCHANGED result
          ELSE /\ Return("trim", Err("ParameterTrimError"))
               /\ UNCHANGED ck
    /\ UNCHANGED <<call, self, opener, prover, verifier, pi_pos, pi, compiled, proof, proved>>

\* self.gadget(prover.mut_cs())?;  prover.prover_key = Some(prover_key.clone());
GenProofGadget(outcome) ==
    /\ pc = "g_gadget"
    /\ IF outcome = "Ok"
       THEN LET g == gadget(self, prover.cs)
            IN /\ self' = g.circ
               /\ prover' = [cs |-> g.cs, prover_key |-> <<compiled[call.slot].pk>>]
               /\ pc' = "g_prove"
               /\ steps' = Append(steps, <<"gadget", "Ok">>)
               /\ UNCHANGED result
       ELSE /\ Return("gadget", Err(outcome))
            /\ UNCHANGED <<self, prover>>
    /\ UNCHANGED <<call, ck, opener, verifier, pi_pos, pi, compiled, proof, proved>>

\* prover.prove(&ck)
GenProofProve(outcome) ==
    /\ pc = "g_prove"
    /\ IF outcome = "Ok" /\ prover.cs.n <= ck.size
       THEN /\ Return("prove", Ok)
            /\ proof' = Prove(prover.cs, prover.prover_key[1], ck, TRANSCRIPT_INIT)
            /\ proved' = [circ |-> call.circ, slot |-> call.slot, pp |-> call.pp]
       ELSE /\ Return("prove", Err("ProvingError"))
            /\ UNCHANGED <<proof, proved>>
    /\ UNCHANGED <<call, self, ck, opener, prover, verifier, pi_pos, pi, compiled>>

\* ----------------------------------------------------------- verify_proof
\* The value at flat index k replaced by another scalar.
RECURSIVE TamperAt(_, _)
TamperAt(values, k) ==
    IF values = <<>> THEN <<>>
    ELSE IF k <= Len(Head(values))
         THEN <<[Head(values) EXCEPT ![k] = Add(@, 1)]>> \o Tail(values)
         ELSE <<Head(values)>> \o TamperAt(Tail(values), k - Len(Head(values)))

\* The value lists a caller may declare for a proved instance: the right one,
\* one with a scalar changed, one too long and one too short.
ValueChoices(circ) ==
    LET d == Declared(circ)
    IN {d, Append(d, FromBlsScalar(1)), SubSeq(d, 1, Len(d) - 1)}
       \cup {TamperAt(d, k) : k \in 1 .. Len(Flatten(d))}

\* The position lists a caller may pass: the compiled one, one too short, one
\* too long, and ones with an index outside the vector.
PositionChoices(pos) ==
    {pos, SubSeq(pos, 1, Len(pos) - 1), Append(pos, TRIM_SIZE - 1), Append(pos, TRIM_SIZE)}
    \cup (IF pos = <<>> THEN {} ELSE {[pos EXCEPT ![1] = TRIM_SIZE]})

VerifyProofCall(circ, pub_params, slot, values, positions) ==
    /\ compiled[slot].ok
    /\ proof.ok
    /\ Enter("verify_proof", circ, pub_params, slot, values, positions)
    /\ pc' = "v_trim"
    /\ UNCHANGED <<compiled, proof, proved>>

\* let (_, vk) = pub_params.trim(Self::TRIM_SIZE)?;  Verifier::new;
\* verifier.verifier_key = Some(*verifier_key);
VerifyProofTrim ==
    /\ pc = "v_trim"
    /\ LET t == Trim(call.pp, TRIM_SIZE)
       IN IF t.ok
          THEN /\ opener' = t.vk
               /\ verifier' = [verifier EXCEPT !.verifier_key = <<compiled[call.slot].vk>>]
               /\ pc' = "v_build_pi"
               /\ steps' = Append(steps, <<"trim", "Ok">>)
               /\ UNCHANGED result
          ELSE /\ Return("trim", Err("ParameterTrimError"))
               /\ UNCHANGED <<opener, verifier>>
    /\ UNCHANGED <<call, self, ck, prover, pi_pos, pi, compiled, proof, proved>>

\* &self.build_pi(pub_inputs_values, pub_inputs_positions), an argument of verify
VerifyProofBuildPi ==
    /\ pc = "v_build_pi"
    /\ IF BuildPiPanics(call.values, call.positions)
       THEN /\ Return("build_pi", Panic("IndexOutOfBounds"))
            /\ UNCHANGED pi
       ELSE /\ pi' = build_pi(call.values, call.positions)
            /\ pc' = "v_verify"
            /\ steps' = Append(steps, <<"build_pi", "Ok">>)
            /\ UNCHANGED result
    /\ UNCHANGED <<call, self, ck, opener, prover, verifier, pi_pos, compiled, proof, proved>>

\* A verify step whose rejection is dropped: the call returns Ok(()).
VerifyProofVerify_Swallowed ==
    /\ pc = "v_verify"
    /\ Return("verify", Ok)
    /\ UNCHANGED <<call, self, ck, opener, prover, verifier, pi_pos, pi, compiled, proof,
                   proved>>

\* verifier.verify(proof, &vk, &pi)
VerifyProofVerify ==
    /\ pc = "v_verify"
    /\ IF Verify(proof, opener, verifier.verifier_key[1], pi, TRANSCRIPT_INIT)
       THEN Return("verify", Ok)
       ELSE Return("verify", Err("VerificationReject"))
    /\ UNCHANGED <<call, self, ck, opener, prover, verifier, pi_pos, pi, compiled, proof,
                   proved>>

\* ------------------------------------------------------------ specification
\* Instances the key compiler and the verifier are run on.
CompileInstances == {DefaultCircuit} \cup {i \in Satisfying : i.a = 1 /\ i.b = 1}
VerifyInstances == {DefaultCircuit}

\* Instances as the compilations so far left them.
LeftInstances == {compiled[s].circ_out : s \in {t \in Slots : compiled[t].ok}}

\* The steps inside a call.
Steps ==
    \/ CompileTrim
    \/ \E o \in GadgetOutcomes : CompileGadget1(o)
    \/ CompilePiPositions
    \/ \E o \in EngineOutcomes : CompilePreprocess1(o)
    \/ \E o \in GadgetOutcomes : CompileGadget2(o)
    \/ \E o \in EngineOutcomes : CompilePreprocess2(o)
    \/ CompileReturn
    \/ GenProofTrim
    \/ \E o \in GadgetOutcomes : GenProofGadget(o)
    \/ \E o \in EngineOutcomes : GenProofProve(o)
    \/ VerifyProofTrim
    \/ VerifyProofBuildPi
    \/ VerifyProofVerify
    \/ Drop

\* Keys are compiled on an instance as given or as an earlier compilation left
\* it; any instance is proved; the declared values and the compiled
\* positions, or a variation of them, are verified.
Next ==
    \/ \E circ \in CompileInstances \cup LeftInstances, pp \in PublicParameters,
          slot \in Slots :
          CompileCall(circ, pp, slot)
    \/ \E circ \in Instances, pp \in PublicParameters, slot \in Slots :
          GenProofCall(circ, pp, slot)
    \/ /\ pc = "idle"
       /\ proof.ok
       /\ \E circ \in VerifyInstances, pp \in PublicParameters, slot \in Slots :
             \E values \in ValueChoices(proved.circ),
                positions \in PositionChoices(compiled[slot].pi_pos) :
                   VerifyProofCall(circ, pp, slot, values, positions)
    \/ Steps

Spec == Init /\ [][Next]_vars

\* ------------------------------------------------------- build_pi on its own
\* The values a caller can encode, and short lists of them.
PublicInputValues ==
    {FromBlsScalar(x) : x \in Scalars}
    \cup {FromJubJubScalar(x) : x \in 0 .. (Q - 1)}
    \cup {FromJubJubAffine(pt) : pt \in Points}
ValueLists ==
    {<<>>} \cup {<<v>> : v \in PublicInputValues}
    \cup {<<v, w>> : v \in PublicInputValues, w \in PublicInputValues}

\* Position lists over the ends of the vector and the first index past it.
PositionDomain == {0, 1, TRIM_SIZE - 1, TRIM_SIZE}
PositionLists == UNION {[1 .. n -> PositionDomain] : n \in 0 .. MaxPosLen}

InitPI ==
    /\ pc = "b_build_pi"
    /\ \E values \in ValueLists, positions \in PositionLists :
          call = [NoCall EXCEPT !.op = "build_pi", !.values = values,
                                !.positions = positions]
    /\ self = DefaultCircuit
    /\ ck = NoCk
    /\ opener = NoOpener
    /\ prover = ProverNew
    /\ verifier = VerifierNew
    /\ pi_pos = <<>>
    /\ pi = <<>>
    /\ steps = <<>>
    /\ result = NoResult
    /\ compiled = [s \in Slots |-> NotCompiled]
    /\ proof = NoProof
    /\ proved = NotProved

\* self.build_pi(pub_input_values, pub_input_pos)
BuildPi ==
    /\ pc = "b_build_pi"
    /\ IF BuildPiPanics(call.values, call.positions)
       THEN /\ Return("build_pi", Panic("IndexOutOfBounds"))
            /\ UNCHANGED pi
       ELSE /\ Return("build_pi", Ok)
            /\ pi' = build_pi(call.values, call.positions)
    /\ UNCHANGED <<call, self, ck, opener, prover, verifier, pi_pos, compiled, proof, proved>>

NextPI == BuildPi

SpecPI == InitPI /\ [][NextPI]_vars

\* ----------------------------------------------------------------- claims
Range(seq) == {seq[i] : i \in 1 .. Len(seq)}
Returned(op) == pc = "returned" /\ call.op = op
StepNames == [i \in 1 .. Len(steps) |-> steps[i][1]]
\* Number of gadget runs of the call so far.
GadgetRuns == Cardinality({i \in 1 .. Len(steps) : steps[i] = <<"gadget", "Ok">>})
\* The relation of the test circuit, on an instance.
Relation(circ) ==
    /\ Add(circ.a, circ.b) = circ.c
    /\ Mul(circ.a, circ.b) = circ.d
    /\ BitLen(circ.a) <= ABits
    /\ BitLen(circ.b) <= BBits
    /\ PointOf(circ.e) = circ.f

\* The contract of build_pi on the call's arguments: as many positions as
\* flattened scalars, pairwise distinct, all inside the vector.
WellFormedPi(values, positions) ==
    /\ Len(positions) = Len(Flatten(values))
    /\ \A i, j \in 1 .. Len(positions) : positions[i] = positions[j] => i = j
    /\ \A i \in 1 .. Len(positions) : positions[i] < TRIM_SIZE

\* C1: build_pi returns exactly TRIM_SIZE scalars; when positions has one
\* entry per flattened scalar, pairwise distinct and below TRIM_SIZE, index
\* p_i holds the negation of s_i and every other index holds zero.
C1_BuildPiScatter ==
    Returned("build_pi") =>
        LET flat == Flatten(call.values)
            pos == call.positions
        IN /\ result.kind = "Ok" => DOMAIN pi = 0 .. (TRIM_SIZE - 1)
           /\ WellFormedPi(call.values, pos) =>
                 /\ result.kind = "Ok"
                 /\ \A i \in 1 .. Len(pos) : (pi[pos[i]] + flat[i]) % P = 0
                 /\ \A j \in (0 .. (TRIM_SIZE - 1)) \ Range(pos) : pi[j] = 0

\* A point at two distinct positions, a coordinate being non-zero, scattered.
C1_Witness ==
    /\ Returned("build_pi")
    /\ result.kind = "Ok"
    /\ WellFormedPi(call.values, call.positions)
    /\ Len(call.positions) >= 2
    /\ \E i \in 1 .. Len(call.positions) : pi[call.positions[i]] # 0

\* A position at or past TRIM_SIZE that build_pi pairs with a scalar.
PairedOutOfRange ==
    \E i \in 1 .. Len(call.positions) :
        i <= Len(Flatten(call.values)) /\ call.positions[i] >= TRIM_SIZE
TrimFits == call.pp.max_degree >= TRIM_SIZE
VerifyCalled == \E i \in 1 .. Len(steps) : steps[i][1] = "verify"
BuiltPi == \E i \in 1 .. Len(steps) : steps[i] = <<"build_pi", "Ok">>

\* C10 as stated: a verify_proof call whose positions hold an index >=
\* TRIM_SIZE paired with a value ends in the out-of-bounds panic, never in
\* accept, reject or a returned error, and the verify engine is never called.
C10_Original ==
    (Returned("verify_proof") /\ PairedOutOfRange) =>
        (result = Panic("IndexOutOfBounds") /\ ~VerifyCalled)

\* C10 amended: such a call ends in the out-of-bounds panic when the
\* parameters can be trimmed to TRIM_SIZE and returns the trim error when
\* they cannot; the verify engine is called in neither case; and a vector
\* that is built is non-zero only at indices taken from positions.
C10_PanicAfterTrim ==
    Returned("verify_proof") =>
        /\ PairedOutOfRange =>
              /\ ~VerifyCalled
              /\ IF TrimFits THEN result = Panic("IndexOutOfBounds")
                 ELSE result = Err("ParameterTrimError")
        /\ BuiltPi =>
              \A j \in 0 .. (TRIM_SIZE - 1) : pi[j] # 0 => j \in Range(call.positions)

\* The panic has happened after a successful trim.
C10_Witness ==
    /\ Returned("verify_proof")
    /\ PairedOutOfRange
    /\ TrimFits
    /\ result.kind = "panic"
    /\ steps = <<(<<"trim", "Ok">>), (<<"build_pi", "IndexOutOfBounds">>)>>

\* C6 as stated: when the flattened values and the positions differ in
\* number, verify_proof does not treat the call as well-formed: it is
\* rejected (with a structural-mismatch reason) and no scalar or position is
\* silently ignored.  The formula states the rejection, which the reason
\* presupposes: such a call is never accepted.
C6_MismatchRejected ==
    (/\ Returned("verify_proof")
     /\ Len(Flatten(call.values)) # Len(call.positions)) =>
        result.kind # "Ok"

\* C2 as stated: compile reads the position list after the second gadget
\* run, from the verifier's composer.
C2_Original ==
    (call.op = "compile" /\ "pi_positions" \in Range(StepNames)) =>
        (GadgetRuns = 2 /\ pi_pos = pi_positions(verifier.cs))

\* C2 amended: compile reads the position list from the prover's composer,
\* right after the first gadget run and before any preprocessing, and
\* returns that list.
C2_FromFirstPass ==
    call.op = "compile" =>
        /\ "pi_positions" \in Range(StepNames) =>
              /\ SubSeq(StepNames, 1, 3) = <<"trim", "gadget", "pi_positions">>
              /\ pi_pos = pi_positions(prover.cs)
              /\ pi_pos # <<>>
        /\ (pc = "returned" /\ result = Ok) =>
              compiled[call.slot].pi_pos = pi_positions(prover.cs)

\* The list has been read while the verifier's composer is still empty.
C2_Witness ==
    /\ call.op = "compile"
    /\ pc = "c_preprocess1"
    /\ GadgetRuns = 1
    /\ pi_pos = pi_positions(prover.cs)
    /\ Len(pi_pos) = Len(Flatten(Declared(self)))
    /\ verifier.cs = NewComposer

\* C3: inside one compile call the positions of the composer after the
\* proving-key pass equal those after the verifying-key pass.
C3_PassSymmetry ==
    (call.op = "compile" /\ GadgetRuns = 2) =>
        /\ pi_positions(prover.cs) = pi_positions(verifier.cs)
        /\ pi_pos = pi_positions(verifier.cs)

\* Both passes have run, on an instance holding non-default values.
C3_Witness ==
    /\ call.op = "compile"
    /\ pc = "c_preprocess2"
    /\ GadgetRuns = 2
    /\ self # DefaultCircuit
    /\ Len(pi_positions(verifier.cs)) = Len(Flatten(Declared(self)))

\* The steps of each entry point, in the order of its code.
Pipeline(op) ==
    CASE op = "compile" ->
            <<"trim", "gadget", "pi_positions", "preprocess", "gadget", "preprocess",
              "return">>
      [] op = "gen_proof" -> <<"trim", "gadget", "prove">>
      [] op = "verify_proof" -> <<"trim", "build_pi", "verify">>
      [] OTHER -> <<>>
\* The error a failing step returns.
ErrorOf(step) ==
    CASE step = "trim" -> "ParameterTrimError"
      [] step = "gadget" -> "GadgetConstructionError"
      [] step = "preprocess" -> "PreprocessError"
      [] step = "prove" -> "ProvingError"
      [] step = "verify" -> "VerificationReject"
      [] OTHER -> "none"
FallibleSteps == {"trim", "gadget", "preprocess", "prove", "verify"}
\* Number of preprocessing passes of the call that have succeeded.
Preprocessed == Cardinality({i \in 1 .. Len(steps) : steps[i] = <<"preprocess", "Ok">>})

\* C7: in compile, gen_proof and verify_proof the steps run in pipeline
\* order; a step that fails is the last step of the call, the call returns
\* that step's error, and nothing a later step would have set is set.
C7_FirstFailureEndsCall ==
    call.op \in {"compile", "gen_proof", "verify_proof"} =>
        /\ Len(steps) <= Len(Pipeline(call.op))
        /\ StepNames = SubSeq(Pipeline(call.op), 1, Len(steps))
        /\ \A i \in 1 .. Len(steps) :
              (steps[i][1] \in FallibleSteps /\ steps[i][2] # "Ok") =>
                  /\ i = Len(steps)
                  /\ pc = "returned"
                  /\ steps[i][2] = ErrorOf(steps[i][1])
                  /\ result = Err(ErrorOf(steps[i][1]))
        /\ (pc = "returned" /\ result.kind = "Err") =>
              /\ steps[Len(steps)][2] = result.err
              /\ GadgetRuns = 0 => (prover.cs = NewComposer /\ pi_pos = <<>>)
              /\ GadgetRuns <= 1 => verifier.cs = NewComposer
              /\ (call.op = "compile" /\ Preprocessed = 0) => prover.prover_key = <<>>
              /\ (call.op = "compile" /\ Preprocessed <= 1) => verifier.verifier_key = <<>>
              /\ (call.op = "gen_proof" /\ GadgetRuns = 0) => prover.prover_key = <<>>
              /\ call.op = "verify_proof" /\ ~BuiltPi => ~VerifyCalled

\* The first gadget pass of compile has failed and ended the call.
C7_Witness ==
    /\ Returned("compile")
    /\ steps = <<(<<"trim", "Ok">>), (<<"gadget", "GadgetConstructionError">>)>>
    /\ result = Err("GadgetConstructionError")
    /\ prover.prover_key = <<>>
    /\ verifier.cs = NewComposer

\* The terminal outcomes of the state machine: Compiled, Proved,
\* VerifiedAccept, VerifiedReject.
Terminal ==
    /\ pc = "returned"
    /\ \/ result = Ok
       \/ call.op = "verify_proof" /\ result = Err("VerificationReject")

\* C8 as stated: every entry point runs the gadget before its terminal
\* outcome: compile twice, gen_proof once, verify_proof once.
C8_Original ==
    Terminal =>
        GadgetRuns = (CASE call.op = "compile" -> 2
                        [] call.op = "gen_proof" -> 1
                        [] call.op = "verify_proof" -> 1
                        [] OTHER -> 0)

\* C8 amended: compile runs the gadget exactly twice, each time on a
\* composer created inside the call, and gen_proof exactly once, before
\* their terminal outcome; verify_proof reaches VerifiedAccept or
\* VerifiedReject without running the gadget at all.
C8_GadgetRuns ==
    Terminal =>
        /\ GadgetRuns = (CASE call.op = "compile" -> 2
                           [] call.op = "gen_proof" -> 1
                           [] call.op = "verify_proof" -> 0
                           [] OTHER -> 0)
        /\ call.op = "compile" =>
              /\ prover.cs.n = Len(prover.cs.gates)
              /\ verifier.cs.n = prover.cs.n
              /\ Len(SelectSeq(verifier.cs.gates, LAMBDA k : k = "add")) = 1
        /\ call.op = "gen_proof" =>
              Len(SelectSeq(prover.cs.gates, LAMBDA k : k = "add")) = 1
        /\ call.op = "verify_proof" =>
              (prover.cs = NewComposer /\ verifier.cs = NewComposer)

\* A verification has ended in accept or reject with no gadget run.
C8_Witness ==
    /\ Returned("verify_proof")
    /\ Terminal
    /\ GadgetRuns = 0

\* The proof at hand was generated by gen_proof with the proving key of
\* compilation i from a witness satisfying the relation, and the running
\* verify_proof call checks it with the verifying key and the positions of
\* compilation j, all three calls under the same parameters.
EndToEnd(i, j) ==
    /\ compiled[i].ok
    /\ compiled[j].ok
    /\ proof.ok
    /\ proved.slot = i
    /\ proved.pp = compiled[i].pp
    /\ Relation(proved.circ)
    /\ call.op = "verify_proof"
    /\ call.slot = j
    /\ call.pp = compiled[j].pp
    /\ compiled[j].pp = compiled[i].pp
    /\ call.positions = compiled[j].pi_pos

\* values is declared with exactly one scalar changed.
OneValueChanged(values, declared) ==
    /\ Len(values) = Len(declared)
    /\ \A k \in 1 .. Len(values) : Len(values[k]) = Len(declared[k])
    /\ Cardinality({k \in 1 .. Len(Flatten(values)) :
                       Flatten(values)[k] # Flatten(declared)[k]}) = 1

\* C4: compile, then gen_proof on a satisfying instance with the compiled
\* proving key, then verify_proof with the compiled verifying key, the
\* prover's public values in declaration order and the compiled positions,
\* all under the same parameters, returns accept.
C4_EndToEndAccept ==
    (/\ pc = "returned"
     /\ EndToEnd(call.slot, call.slot)
     /\ call.values = Declared(proved.circ)) =>
        result = Ok

\* Accepted, the keys compiled and the verifier run on default instances and
\* the proof made from other values.
C4_Witness ==
    /\ pc = "returned"
    /\ EndToEnd(call.slot, call.slot)
    /\ call.values = Declared(proved.circ)
    /\ result = Ok
    /\ compiled[call.slot].circ_in = DefaultCircuit
    /\ call.circ = DefaultCircuit
    /\ proved.circ.c # 0

\* C5: the same call with one declared public value changed completes with
\* the reject outcome: no accept, no other error, no panic.
C5_TamperRejected ==
    (/\ pc = "returned"
     /\ EndToEnd(call.slot, call.slot)
     /\ OneValueChanged(call.values, Declared(proved.circ))) =>
        /\ result = Err("VerificationReject")
        /\ StepNames = Pipeline("verify_proof")

\* The declared c differs from the prover's and the call has been rejected.
C5_Witness ==
    /\ pc = "returned"
    /\ EndToEnd(call.slot, call.slot)
    /\ OneValueChanged(call.values, Declared(proved.circ))
    /\ call.values[1] # FromBlsScalar(proved.circ.c)
    /\ result = Err("VerificationReject")

\* Compilations i and j ran on the same instance, one after the other, or on
\* two equal instances.
SameInstance(i, j) ==
    \/ compiled[i].circ_in = compiled[j].circ_in
    \/ compiled[j].circ_in = compiled[i].circ_out
    \/ compiled[i].circ_in = compiled[j].circ_out

\* C9: two compilations of the circuit under the same parameters return
\* equal position lists and interchangeable keys: a proof generated with
\* the proving key of one is accepted with the verifying key and the
\* positions of the other.
C9_IdempotentCompile ==
    \A i, j \in Slots :
        (/\ compiled[i].ok
         /\ compiled[j].ok
         /\ compiled[i].pp = compiled[j].pp
         /\ SameInstance(i, j)) =>
            /\ compiled[i].pi_pos = compiled[j].pi_pos
            /\ (/\ pc = "returned"
                /\ EndToEnd(i, j)
                /\ call.values = Declared(proved.circ)) =>
                   result = Ok

\* A proof made with the key of the first compilation has been accepted with
\* the key and positions of the second.
C9_Witness ==
    /\ pc = "returned"
    /\ EndToEnd(1, 2)
    /\ SameInstance(1, 2)
    /\ call.values = Declared(proved.circ)
    /\ proved.circ.c # 0
    /\ result = Ok

====
